---- MODULE Spec2Model ----
(***************************************************************************)
(* Model of the paginating scraper of src/main.rs: Scraper::run and the    *)
(* functions it calls (fetch_page, get_total_count, save_page_to_file).    *)
(*                                                                         *)
(* Integers of the program are i32 (page, page_size, total_count,          *)
(* total_pages); the planning step goes through f32.  TLC's integers are   *)
(* 32-bit as well, so every operator below is written so that no           *)
(* intermediate value leaves the i32 range.                                *)
(***************************************************************************)
EXTENDS Integers, Sequences, FiniteSets, TLC

I32Max == 2147483647
I32Min == (-2147483647) - 1

Pow2(n) == 2 ^ n

(***************************************************************************)
(* i32 multiplication, main.rs:173  (page - 1) * page_size.                *)
(* MulFits: the mathematical product is an i32.                            *)
(***************************************************************************)
CeilDivMin(b) == (I32Min \div b) + (IF I32Min % b = 0 THEN 0 ELSE 1)

MulFits(a, b) ==
    IF a = 0 \/ b = 0 THEN TRUE
    ELSE IF a > 0 /\ b > 0 THEN a <= I32Max \div b
    ELSE IF a < 0 /\ b > 0 THEN a >= CeilDivMin(b)
    ELSE IF a > 0 /\ b < 0 THEN b >= CeilDivMin(a)
    ELSE IF a = I32Min \/ b = I32Min THEN FALSE
    ELSE (0 - a) <= I32Max \div (0 - b)

\* two's complement addition modulo 2^32
WrapAdd(x, y) ==
    IF x >= 0 /\ y >= 0 /\ x > I32Max - y THEN (x + I32Min) + (y + I32Min)
    ELSE IF x < 0 /\ y < 0 /\ x < I32Min - y THEN (x - I32Min) + (y - I32Min)
    ELSE x + y

\* p * 2^k modulo 2^32 as an i32, for 0 <= p < 2^22 and k in {11, 22}
ShlWrap(p, k) ==
    LET u == p % Pow2(32 - k) IN
    IF u >= Pow2(31 - k) THEN (u - Pow2(32 - k)) * Pow2(k) ELSE u * Pow2(k)

\* two's complement multiplication modulo 2^32, by 11-bit limbs
WrapMulLimbs(a, b) ==
    LET a0 == a % 2048
        a1 == (a \div 2048) % 2048
        a2 == (a \div 4194304) % 1024
        b0 == b % 2048
        b1 == (b \div 2048) % 2048
        b2 == (b \div 4194304) % 1024
        lo == a0 * b0
        mid == WrapAdd(ShlWrap(a0 * b1, 11), ShlWrap(a1 * b0, 11))
        hi == WrapAdd(ShlWrap(a1 * b1, 22),
                      WrapAdd(ShlWrap(a0 * b2, 22), ShlWrap(a2 * b0, 22)))
    IN WrapAdd(lo, WrapAdd(mid, hi))

WrapMul(a, b) == IF MulFits(a, b) THEN a * b ELSE WrapMulLimbs(a, b)

(***************************************************************************)
(* f32, main.rs:139.  A float is [k, s, m, e]: k is "num", "zero", "inf"   *)
(* or "nan", s the sign (1 or -1), and for "num" the value is s * m * 2^e  *)
(* with the 24-bit significand 2^23 <= m < 2^24.                           *)
(***************************************************************************)
FZero(s) == [k |-> "zero", s |-> s, m |-> 0, e |-> 0]
FInf(s) == [k |-> "inf", s |-> s, m |-> 0, e |-> 0]
FNaN == [k |-> "nan", s |-> 1, m |-> 0, e |-> 0]
FNum(s, m, e) == [k |-> "num", s |-> s, m |-> m, e |-> e]

\* number of bits of n > 0
RECURSIVE BitLen(_)
BitLen(n) == IF n = 0 THEN 0 ELSE 1 + BitLen(n \div 2)

\* round the positive integer n to a 24-bit significand, ties to even
RoundMag(n) ==
    LET len == BitLen(n) IN
    IF len <= 24 THEN FNum(1, n * Pow2(24 - len), len - 24)
    ELSE LET sh == len - 24
             q == n \div Pow2(sh)
             r == n % Pow2(sh)
             half == Pow2(sh - 1)
             up == r > half \/ (r = half /\ q % 2 = 1)
         IN IF ~up THEN FNum(1, q, sh)
            ELSE IF q + 1 = Pow2(24) THEN FNum(1, Pow2(23), sh + 1)
            ELSE FNum(1, q + 1, sh)

\* `n as f32` for an i32 n
I32ToF32(n) ==
    IF n = 0 THEN FZero(1)
    ELSE IF n = I32Min THEN FNum(-1, Pow2(23), 8)
    ELSE IF n < 0 THEN [RoundMag(0 - n) EXCEPT !.s = -1]
    ELSE RoundMag(n)

\* bits more quotient bits of rem / d (rem < d), appended to acc
RECURSIVE LongDiv(_, _, _, _)
LongDiv(rem, d, bits, acc) ==
    IF bits = 0 THEN <<acc, rem>>
    ELSE IF 2 * rem >= d THEN LongDiv(2 * rem - d, d, bits - 1, 2 * acc + 1)
    ELSE LongDiv(2 * rem, d, bits - 1, 2 * acc)

\* IEEE-754 single precision division, round to nearest, ties to even
F32Div(a, b) ==
    LET s == a.s * b.s IN
    IF a.k = "nan" \/ b.k = "nan" THEN FNaN
    ELSE IF a.k = "inf" THEN (IF b.k = "inf" THEN FNaN ELSE FInf(s))
    ELSE IF b.k = "inf" THEN FZero(s)
    ELSE IF b.k = "zero" THEN (IF a.k = "zero" THEN FNaN ELSE FInf(s))
    ELSE IF a.k = "zero" THEN FZero(s)
    ELSE LET big == a.m >= b.m
             bits == IF big THEN 23 ELSE 24
             qr == LongDiv(a.m % b.m, b.m, bits, a.m \div b.m)
             q == qr[1]
             r == qr[2]
             e == a.e - b.e - bits
             up == 2 * r > b.m \/ (2 * r = b.m /\ q % 2 = 1)
         IN IF ~up THEN FNum(s, q, e)
            ELSE IF q + 1 = Pow2(24) THEN FNum(s, Pow2(23), e + 1)
            ELSE FNum(s, q + 1, e)

\* f32::ceil; the result of a "num" is an integer value [k = "int"] kept as
\* s * m * 2^e with e >= 0, or a zero
F32Ceil(x) ==
    IF x.k # "num" THEN x
    ELSE IF x.e >= 0 THEN x
    ELSE IF 0 - x.e >= 24 THEN (IF x.s = 1 THEN FNum(1, 1, 0) ELSE FZero(-1))
    ELSE LET d == Pow2(0 - x.e)
             q == x.m \div d
             r == x.m % d
             c == IF x.s = 1 /\ r > 0 THEN q + 1 ELSE q
         IN IF c = 0 THEN FZero(x.s) ELSE FNum(x.s, c, 0)

\* `x as i32` for an integral f32: saturating, NaN gives 0
F32ToI32(x) ==
    IF x.k = "nan" \/ x.k = "zero" THEN 0
    ELSE IF x.k = "inf" THEN (IF x.s = 1 THEN I32Max ELSE I32Min)
    ELSE IF x.e >= 31 \/ (x.e >= 1 /\ x.m >= Pow2(31 - x.e))
         THEN (IF x.s = 1 THEN I32Max ELSE I32Min)
    ELSE x.s * (x.m * Pow2(x.e))

\* a planning step that never plans fewer than one page
TotalPagesAtLeastOne(total_count, page_size) ==
    LET n == F32ToI32(F32Ceil(F32Div(I32ToF32(total_count), I32ToF32(page_size))))
    IN IF n < 1 THEN 1 ELSE n

\* main.rs:138-139: (total_count as f32 / page_size as f32).ceil() as i32,
\* the value of each stage taken once
TotalPages(total_count, page_size) ==
    CHOOSE n \in { F32ToI32(c) :
                     c \in { F32Ceil(q) :
                               q \in { F32Div(a, b) : a \in {I32ToF32(total_count)},
                                                      b \in {I32ToF32(page_size)} } } } : TRUE

\* the exact ceiling of tc / ps for tc >= 0, ps > 0
ExactCeil(tc, ps) == (tc \div ps) + (IF tc % ps = 0 THEN 0 ELSE 1)

(***************************************************************************)
(* Text.  A string is a sequence of pieces: the piece "/" is the character *)
(* '/', "~0" and "~1" are the JSON-pointer escapes, and any other piece is *)
(* a run of other characters.  Decimal numbers are sequences of digits.    *)
(***************************************************************************)
DigitStr == <<"0", "1", "2", "3", "4", "5", "6", "7", "8", "9">>

(***************************************************************************)
(* 64-bit integers are <<w3, w2, w1, w0>>: four 16-bit limbs, two's        *)
(* complement, most significant first.                                     *)
(***************************************************************************)
I64(n) ==
    LET ext == IF n < 0 THEN 65535 ELSE 0
    IN <<ext, ext, (n \div 65536) % 65536, n % 65536>>

\* main.rs:202  `v as i32` keeps the low 32 bits
I64AsI32(l) ==
    IF l[3] >= 32768 THEN (l[3] - 65536) * 65536 + l[4] ELSE l[3] * 65536 + l[4]

LimbsNeg(l) ==
    LET n4 == (65535 - l[4]) + 1
        n3 == (65535 - l[3]) + (n4 \div 65536)
        n2 == (65535 - l[2]) + (n3 \div 65536)
        n1 == (65535 - l[1]) + (n2 \div 65536)
    IN <<n1 % 65536, n2 % 65536, n3 % 65536, n4 % 65536>>

\* unsigned division of the limbs by ten: <<quotient, remainder>>
LimbsDivTen(l) ==
    LET c1 == l[1]
        c2 == (c1 % 10) * 65536 + l[2]
        c3 == (c2 % 10) * 65536 + l[3]
        c4 == (c3 % 10) * 65536 + l[4]
    IN <<<<c1 \div 10, c2 \div 10, c3 \div 10, c4 \div 10>>, c4 % 10>>

RECURSIVE LimbsDigits(_)
LimbsDigits(l) ==
    IF l = <<0, 0, 0, 0>> THEN <<>>
    ELSE CHOOSE txt \in { Append(LimbsDigits(qr[1]), DigitStr[qr[2] + 1]) :
                              qr \in {LimbsDivTen(l)} } : TRUE

\* the decimal text of a signed 64-bit integer
I64ToString(l) ==
    IF l = <<0, 0, 0, 0>> THEN <<"0">>
    ELSE IF l[1] >= 32768 THEN <<"-">> \o LimbsDigits(LimbsNeg(l))
    ELSE LimbsDigits(l)

\* i32::to_string, main.rs:175-189
I32ToString(n) == I64ToString(I64(n))

(***************************************************************************)
(* serde_json::Value.  A value is [t, v]: t the type, v the payload        *)
(* ("int": limbs of an i64; "uint": a u64 above i64::MAX; "float" and      *)
(* "str": text; "arr": sequence of values; "obj": sequence of <<key,       *)
(* value>> with distinct keys).                                            *)
(***************************************************************************)
JNull == [t |-> "null", v |-> <<>>]
JBool(b) == [t |-> "bool", v |-> <<b>>]
JInt(l) == [t |-> "int", v |-> l]
JUInt(txt) == [t |-> "uint", v |-> txt]
JFloat(txt) == [t |-> "float", v |-> txt]
JStr(txt) == [t |-> "str", v |-> txt]
JArr(items) == [t |-> "arr", v |-> items]
JObj(members) == [t |-> "obj", v |-> members]

\* Option: <<>> is None, <<x>> is Some(x)
None == <<>>
Some(x) == <<x>>

\* str::split('/')
RECURSIVE SplitSlash(_, _)
SplitSlash(txt, cur) ==
    IF txt = <<>> THEN <<cur>>
    ELSE IF Head(txt) = "/" THEN <<cur>> \o SplitSlash(Tail(txt), <<>>)
    ELSE SplitSlash(Tail(txt), Append(cur, Head(txt)))

\* replace("~1", "/").replace("~0", "~")
Unescape(tok) ==
    [i \in 1..Len(tok) |-> IF tok[i] = "~1" THEN "/"
                           ELSE IF tok[i] = "~0" THEN "~" ELSE tok[i]]

\* Map::get
ObjGet(members, key) ==
    LET hits == {i \in 1..Len(members) : members[i][1] = key}
    IN IF hits = {} THEN None ELSE Some(members[CHOOSE i \in hits : TRUE][2])

\* parse_index: a decimal array index without sign or leading zeros (an index
\* of two or more digits is past the end of every array modelled here)
ParseIndex(tok) ==
    IF Len(tok) = 0 \/ \E i \in 1..Len(tok) : \A d \in 1..10 : DigitStr[d] # tok[i] THEN None
    ELSE IF Len(tok) > 1 THEN (IF tok[1] = "0" THEN None ELSE Some(10))
    ELSE Some((CHOOSE d \in 1..10 : DigitStr[d] = tok[1]) - 1)

RECURSIVE Walk(_, _)
Walk(val, toks) ==
    IF toks = <<>> THEN Some(val)
    ELSE LET tok == Unescape(Head(toks))
             next == IF val.t = "obj" THEN ObjGet(val.v, tok)
                     ELSE IF val.t = "arr"
                          THEN (LET ix == ParseIndex(tok)
                                IN IF ix = None THEN None
                                   ELSE IF ix[1] + 1 > Len(val.v) THEN None
                                   ELSE Some(val.v[ix[1] + 1]))
                     ELSE None
         IN IF next = None THEN None ELSE Walk(next[1], Tail(toks))

\* a lookup of the whole path as the name of one top-level field
PointerFlat(val, ptr) ==
    IF ptr = <<>> THEN Some(val)
    ELSE IF Head(ptr) # "/" THEN None
    ELSE IF val.t = "obj" THEN ObjGet(val.v, Tail(ptr)) ELSE None

\* serde_json::Value::pointer
Pointer(val, ptr) ==
    IF ptr = <<>> THEN Some(val)
    ELSE IF Head(ptr) # "/" THEN None
    ELSE Walk(val, SplitSlash(Tail(ptr), <<>>))

\* format!("/{}", path)
SlashPath(path) == <<"/">> \o path

\* Value::as_i64
AsI64(val) == IF val.t = "int" THEN Some(val.v) ELSE None

\* an extraction that falls back to 0 instead of failing (unwrap_or(0))
get_total_count_or_zero(config, response) ==
    LET found == Pointer(response, SlashPath(config.total_count_path))
        num == IF found = None THEN None ELSE AsI64(found[1])
    IN IF num = None THEN Some(0) ELSE Some(I64AsI32(num[1]))

\* main.rs:198-204: None stands for Err("Could not find total count in response")
get_total_count(config, response) ==
    LET found == Pointer(response, SlashPath(config.total_count_path))
        num == IF found = None THEN None ELSE AsI64(found[1])
    IN IF num = None THEN None ELSE Some(I64AsI32(num[1]))

(***************************************************************************)
(* serde_json::to_string_pretty, main.rs:217: two-space indentation.       *)
(***************************************************************************)
RECURSIVE Indent(_)
Indent(n) == IF n = 0 THEN <<>> ELSE <<"  ">> \o Indent(n - 1)

RECURSIVE Pretty(_, _)
RECURSIVE PrettyItems(_, _, _)
RECURSIVE PrettyMembers(_, _, _)
PrettyItems(items, i, ind) ==
    IF i > Len(items) THEN <<>>
    ELSE (IF i > 1 THEN <<",">> ELSE <<>>) \o <<"\n">> \o Indent(ind)
         \o Pretty(items[i], ind) \o PrettyItems(items, i + 1, ind)

PrettyMembers(members, i, ind) ==
    IF i > Len(members) THEN <<>>
    ELSE (IF i > 1 THEN <<",">> ELSE <<>>) \o <<"\n">> \o Indent(ind)
         \o <<"\"">> \o members[i][1] \o <<"\"", ": ">>
         \o Pretty(members[i][2], ind) \o PrettyMembers(members, i + 1, ind)

Pretty(val, ind) ==
    IF val.t = "null" THEN <<"null">>
    ELSE IF val.t = "bool" THEN (IF val.v[1] THEN <<"true">> ELSE <<"false">>)
    ELSE IF val.t = "int" THEN I64ToString(val.v)
    ELSE IF val.t = "uint" \/ val.t = "float" THEN val.v
    ELSE IF val.t = "str" THEN <<"\"">> \o val.v \o <<"\"">>
    ELSE IF val.t = "arr"
         THEN (IF val.v = <<>> THEN <<"[", "]">>
               ELSE <<"[">> \o PrettyItems(val.v, 1, ind + 1) \o <<"\n">> \o Indent(ind) \o <<"]">>)
    ELSE (IF val.v = <<>> THEN <<"{", "}">>
          ELSE <<"{">> \o PrettyMembers(val.v, 1, ind + 1) \o <<"\n">> \o Indent(ind) \o <<"}">>)

to_string_pretty(val) == Pretty(val, 0)

(***************************************************************************)
(* Scraper::new, main.rs:97-129.                                           *)
(***************************************************************************)
\* str::to_lowercase on the pagination types given on the command line
ToLowercase(str) ==
    CASE str = "Offset" -> "offset"
      [] str = "OFFSET" -> "offset"
      [] str = "oFFset" -> "offset"
      [] str = "Cursor" -> "cursor"
      [] str = "CURSOR" -> "cursor"
      [] str = "CuRsOr" -> "cursor"
      [] str = "Page" -> "page"
      [] str = "PAGE" -> "page"
      [] OTHER -> str

\* a match on the string as it was given (no to_lowercase)
PaginationTypeOfExact(str) ==
    IF str = "offset" THEN "Offset"
    ELSE IF str = "cursor" THEN "Cursor"
    ELSE "Page"

\* main.rs:102-106
PaginationTypeOf(str) ==
    LET low == ToLowercase(str)
    IN IF low = "offset" THEN "Offset"
       ELSE IF low = "cursor" THEN "Cursor"
       ELSE "Page"

\* main.rs:111-116: the PaginationConfig built from the arguments
new(args) ==
    [pagination_type |-> PaginationTypeOf(args.pagination_type),
     page_size |-> args.page_size,
     data_path |-> args.data_path,
     total_count_path |-> args.total_count_path]

(***************************************************************************)
(* fetch_page, main.rs:170-192: the query parameters of the request for    *)
(* `page`.  The i32 product of line 173 panics on overflow in a build with *)
(* overflow checks and wraps in a build without.                           *)
(***************************************************************************)
Offset(page, page_size) == WrapMul(page - 1, page_size)

OffsetOverflows(page, page_size) == ~MulFits(page - 1, page_size)

BuildParams(config, page) ==
    IF config.pagination_type = "Offset"
    THEN << <<"offset", I32ToString(Offset(page, config.page_size))>>,
            <<"limit", I32ToString(config.page_size)>> >>
    ELSE IF config.pagination_type = "Cursor"
    THEN << <<"cursor", I32ToString(page)>>,
            <<"limit", I32ToString(config.page_size)>> >>
    ELSE << <<"page", I32ToString(page)>>,
            <<"pageSize", I32ToString(config.page_size)>> >>

\* fetch_page panics instead of building the request
FetchPanics(config, checks, page) ==
    config.pagination_type = "Offset" /\ checks /\ OffsetOverflows(page, config.page_size)

(***************************************************************************)
(* Bounds of the model.                                                    *)
(***************************************************************************)
\* largest total count a modelled response body announces
MaxCount == 3
\* the loop of run() is followed up to this page index
MaxPages == 3

(***************************************************************************)
(* The remote's answers to `send().await?.json().await?`, main.rs:194:     *)
(* a transport error, a body that does not decode, or a decoded document.  *)
(***************************************************************************)
Member(key, val) == << <<key, val>> >>

TotalFields ==
    << <<>>,
       Member(<<"totalCount">>, JStr(<<"3">>)),
       Member(<<"totalCount">>, JFloat(<<"2", ".", "0">>)),
       Member(<<"totalCount">>, JInt(<<0, 1, 0, 0>>)),
       Member(<<"meta">>, JObj(Member(<<"total">>, JInt(I64(2))))),
       Member(<<"totalCount">>, JInt(<<65535, 65535, 0, 1>>)),
       Member(<<"totalCount">>, JUInt(<<"9", "2", "2", "3", "3", "7", "2", "0", "3", "6",
                                        "8", "5", "4", "7", "7", "5", "8", "0", "8">>)),
       Member(<<"meta", "/", "total">>, JInt(I64(1))) >>
    \o [i \in 1..(MaxCount + 2) |-> Member(<<"totalCount">>, JInt(I64(i - 2)))]

DataFields ==
    << <<>>,
       Member(<<"data">>, JArr(<<JInt(I64(7)), JStr(<<"x">>)>>)),
       Member(<<"data">>, JNull),
       Member(<<"data">>, JObj(Member(<<"k">>, JBool(TRUE)))),
       Member(<<"data">>, JInt(I64(-5))) >>

Body(d, t) == JObj(DataFields[d] \o TotalFields[t])

FetchErr(kind) == [ok |-> FALSE, err |-> kind, body |-> JNull]
FetchOk(doc) == [ok |-> TRUE, err |-> "", body |-> doc]

FetchErrors == {"transport", "decode"}

\* an answer of the remote: a failure of a kind, or the body of fields d and t
Answer(kind, d, t) == [kind |-> kind, d |-> d, t |-> t]

(***************************************************************************)
(* State.                                                                  *)
(***************************************************************************)
VARIABLES
    args,              \* the command line, main.rs:11-51
    remote,            \* the remote's data set: page index -> answer (<<>>: any answer)
    previous,          \* what an earlier run of the program left (<<>>: there was none)
    config,            \* self.config.pagination, main.rs:111-116
    checks,            \* the build has integer overflow checks
    dir_exists,        \* Path::new(&self.output_dir).exists()
    files,             \* files of the output directory: page index -> text
    pc,                \* position in run()
    initial_response,  \* main.rs:136
    response,          \* main.rs:149, with the request it answers
    total_count,       \* main.rs:137
    total_pages,       \* main.rs:138
    page,              \* main.rs:144
    params,            \* main.rs:171, of the last request built
    log,               \* requests, sleeps, file writes and console lines so far
    result             \* what run() returned

vars == <<args, remote, previous, config, checks, dir_exists, files, pc, initial_response, response,
          total_count, total_pages, page, params, log, result>>

Event(kind, pg, src, arg) == [ev |-> kind, page |-> pg, src |-> src, arg |-> arg]

Requests(lg) == {i \in 1..Len(lg) : lg[i].ev = "request"}

\* the serial number the next request gets
NextSerial == Cardinality(Requests(log)) + 1

PaginationArgs == {"offset", "Cursor"}
PageSizes == {-1, 0, 1, 2}
DataPaths == {<<"data">>}
TotalCountPaths == {<<"totalCount">>, <<"meta", "/", "total">>}

Stale == <<"stale">>

\* the total-count field sampled in the bodies of the loop's responses, where
\* nothing reads the field: the largest count
LoopTotals == {Len(TotalFields)}

\* the answers a request can get: a failure, or a body with a total field of ts
Answers(ts) ==
    {Answer(kind, 0, 0) : kind \in FetchErrors}
        \cup {Answer("ok", d, t) : d \in 1..Len(DataFields), t \in ts}

\* what the remote answers to the request for page pg
Served(pg, ts) == IF remote = <<>> THEN Answers(ts) ELSE {remote[pg]}

\* a file opened for appending instead of truncated
WriteFileAppend(fs, pg, text) ==
    (pg :> ((IF pg \in DOMAIN fs THEN fs[pg] ELSE <<>>) \o text)) @@ fs

\* a file that is left alone when it exists already (create_new)
WriteFileKeep(fs, pg, text) == IF pg \in DOMAIN fs THEN fs ELSE (pg :> text) @@ fs

\* main.rs:216-218: File::create truncates, write_all writes the text
WriteFile(fs, pg, text) == (pg :> text) @@ fs

IsErr(r) == r \notin {"running", "Ok", "panic"}

\* the `?` of main.rs:133, 136, 137 and 150: run() returns the error
Propagate(msg) == [pc |-> "failed", result |-> msg]

\* a loop that reports a failed save and goes on
SaveErrSkip(msg) == [pc |-> "loop", result |-> "running"]

\* main.rs:150: the `?` after save_page_to_file
SaveErr(msg) == Propagate(msg)

\* an Err arm that returns the error (`fetch_page(page).await?`)
FetchErrArmFatal(kind) == Propagate(kind)

\* main.rs:152-154: the Err arm of the match reports and falls through
FetchErrArm(kind) == [pc |-> "loop", result |-> "running"]

\* a range that excludes its end (1..total_pages)
RangeDoneExclusive(pg, last) == pg >= last

\* main.rs:144: the range 1..=total_pages is exhausted
RangeDone(pg, last) == pg > last

\* a loop that steps by two
NextPageSkip(pg) == pg + 2

\* main.rs:144: the range 1..=total_pages yields the next index
NextPage(pg) == pg + 1

\* an iteration that does not sleep before the first page
BeforeFetchNoFirstSleep(pg) ==
    IF pg = 1 THEN << Event("print_fetching", pg, 0, <<>>) >>
    ELSE << Event("print_fetching", pg, 0, <<>>), Event("sleep", pg, 0, <<>>) >>

\* main.rs:145-146: what an iteration does before its fetch
BeforeFetch(pg) == << Event("print_fetching", pg, 0, <<>>), Event("sleep", pg, 0, <<>>) >>

\* a loop that saves the probe's response as page 1
SaveSourceReuse(pg, initial, current) == IF pg = 1 THEN initial ELSE current

\* main.rs:150: the response handed to save_page_to_file
SaveSource(pg, initial, current) == current

Init ==
    /\ \E pt \in PaginationArgs, ps \in PageSizes, dp \in DataPaths, tp \in TotalCountPaths :
          args = [pagination_type |-> pt, page_size |-> ps,
                  data_path |-> dp, total_count_path |-> tp]
    /\ remote = <<>>
    /\ previous = <<>>
    /\ config = new(args)
    /\ checks = FALSE    \* no offset of these page indices overflows: both builds act alike
    /\ dir_exists \in BOOLEAN
    /\ files = IF dir_exists THEN [p \in 1..MaxPages |-> Stale] ELSE <<>>
    /\ pc = "start"
    /\ initial_response = None
    /\ response = None
    /\ total_count = 0
    /\ total_pages = 0
    /\ page = 0
    /\ params = <<>>
    /\ log = <<>>
    /\ result = "running"

\* main.rs:132-134
CreateDir ==
    /\ pc = "start"
    /\ \E created \in BOOLEAN :
          IF dir_exists \/ created
          THEN /\ dir_exists' = TRUE
               /\ pc' = "probe"
               /\ result' = result
          ELSE /\ dir_exists' = FALSE
               /\ pc' = Propagate("Err(create_dir)").pc
               /\ result' = Propagate("Err(create_dir)").result
    /\ UNCHANGED <<args, remote, previous, config, checks, files, initial_response, response, total_count,
                   total_pages, page, params, log>>

\* main.rs:136: fetch_page(1).await?
Probe ==
    /\ pc = "probe"
    /\ IF FetchPanics(config, checks, 1)
       THEN /\ pc' = "panicked"
            /\ result' = "panic"
            /\ UNCHANGED <<initial_response, params, log>>
       ELSE /\ params' = BuildParams(config, 1)
            /\ log' = Append(log, Event("request", 1, NextSerial, params'))
            /\ \E ans \in Served(1, 1..Len(TotalFields)) :
                  IF ans.kind \in FetchErrors
                  THEN /\ initial_response' = None
                       /\ pc' = Propagate(ans.kind).pc
                       /\ result' = Propagate(ans.kind).result
                  ELSE /\ initial_response' =
                              Some([doc |-> Body(ans.d, ans.t), req |-> NextSerial])
                       /\ pc' = "plan"
                       /\ result' = result
    /\ UNCHANGED <<args, remote, previous, config, checks, dir_exists, files, response, total_count, total_pages, page>>

\* main.rs:137-142
Plan ==
    /\ pc = "plan"
    /\ LET count == get_total_count(config, initial_response[1].doc)
       IN IF count = None
          THEN /\ pc' = Propagate("Err(total count)").pc
               /\ result' = Propagate("Err(total count)").result
               /\ UNCHANGED <<total_count, total_pages, page, log>>
          ELSE \E n \in {count[1]} : \E pages \in {TotalPages(n, config.page_size)} :
               /\ total_count' = n
               /\ total_pages' = pages
               /\ page' = 1
               /\ log' = Append(log, Event("print_totals", 0, 0,
                                           <<I32ToString(n), I32ToString(pages)>>))
               /\ pc' = "loop"
               /\ result' = result
    /\ UNCHANGED <<args, remote, previous, config, checks, dir_exists, files, initial_response, response, params>>

\* main.rs:144-146: the loop takes the next page, announces it and sleeps
Sleep ==
    /\ pc = "loop"
    /\ ~ RangeDone(page, total_pages)
    /\ page <= MaxPages
    /\ log' = log \o BeforeFetch(page)
    /\ pc' = "fetch"
    /\ UNCHANGED <<args, remote, previous, config, checks, dir_exists, files, initial_response, response, total_count,
                   total_pages, page, params, result>>

\* main.rs:148, 152-154: fetch_page(page).await and the Err arm
Fetch ==
    /\ pc = "fetch"
    /\ IF FetchPanics(config, checks, page)
       THEN /\ pc' = "panicked"
            /\ result' = "panic"
            /\ UNCHANGED <<response, params, log, page>>
       ELSE /\ params' = BuildParams(config, page)
            /\ \E ans \in Served(page, LoopTotals) :
                  IF ans.kind \in FetchErrors
                  THEN /\ log' = log \o << Event("request", page, NextSerial, params'),
                                           Event("eprint_error", page, NextSerial, <<ans.kind>>) >>
                       /\ response' = None
                       /\ pc' = FetchErrArm(ans.kind).pc
                       /\ result' = FetchErrArm(ans.kind).result
                       /\ page' = IF pc' = "loop" THEN NextPage(page) ELSE page
                  ELSE /\ log' = Append(log, Event("request", page, NextSerial, params'))
                       /\ response' = Some([doc |-> Body(ans.d, ans.t), req |-> NextSerial])
                       /\ page' = page
                       /\ pc' = "save"
                       /\ result' = result
    /\ UNCHANGED <<args, remote, previous, config, checks, dir_exists, files, initial_response, total_count, total_pages>>

\* what write_all leaves in the file when it fails
Partial(text) == {<<>>, SubSeq(text, 1, Len(text) - 1)}

\* main.rs:150 and 206-221: save_page_to_file(page, &response)?
Save ==
    /\ pc = "save"
    /\ \E from \in {SaveSource(page, initial_response[1], response[1])} :
       \E data \in {Pointer(from.doc, SlashPath(config.data_path))} :
          IF data = None
          THEN /\ pc' = SaveErr("Err(data)").pc
               /\ result' = SaveErr("Err(data)").result
               /\ UNCHANGED <<files, log, page>>
          ELSE \E json \in {to_string_pretty(data[1])} :
                  \E sink \in {"ok", "create_err", "write_err"} :
                     IF sink = "ok"
                     THEN /\ files' = WriteFile(files, page, json)
                          /\ log' = log \o << Event("write", page, from.req, json),
                                              Event("print_saved", page, 0, <<>>) >>
                          /\ page' = NextPage(page)
                          /\ pc' = "loop"
                          /\ result' = result
                     ELSE /\ IF sink = "create_err"
                             THEN files' = files
                             ELSE \E part \in Partial(json) : files' = WriteFile(files, page, part)
                          /\ pc' = SaveErr("Err(" \o sink \o ")").pc
                          /\ result' = SaveErr("Err(" \o sink \o ")").result
                          /\ UNCHANGED <<log, page>>
    /\ response' = None
    /\ UNCHANGED <<args, remote, previous, config, checks, dir_exists, initial_response, total_count, total_pages, params>>

\* main.rs:158-159
Complete ==
    /\ pc = "loop"
    /\ RangeDone(page, total_pages)
    /\ log' = Append(log, Event("print_complete", 0, 0, <<>>))
    /\ pc' = "done"
    /\ result' = "Ok"
    /\ UNCHANGED <<args, remote, previous, config, checks, dir_exists, files, initial_response, response, total_count,
                   total_pages, page, params>>

Next == CreateDir \/ Probe \/ Plan \/ Sleep \/ Fetch \/ Save \/ Complete

Spec == Init /\ [][Next]_vars

(***************************************************************************)
(* The program run twice, main.rs:230-236, with the same command line      *)
(* against a remote whose data set does not change: the answer to the      *)
(* request for a page index is the same every time.  The second process    *)
(* starts from the files the first one left.                               *)
(***************************************************************************)
\* the data sets: a total of MaxCount items announced on page 1, and for each
\* page a failure, a body without data, or a body with an array or an object
RemoteAnswers(pg) ==
    {Answer("transport", 0, 0)}
        \cup {Answer("ok", d, IF pg = 1 THEN Len(TotalFields) ELSE 1) : d \in {1, 2, 4}}

InitRerun ==
    /\ \E ps \in {1, 2} :
          args = [pagination_type |-> "Cursor", page_size |-> ps,
                  data_path |-> <<"data">>, total_count_path |-> <<"totalCount">>]
    /\ remote \in {r \in [1..MaxPages -> UNION {RemoteAnswers(pg) : pg \in 1..MaxPages}] :
                      \A pg \in 1..MaxPages : r[pg] \in RemoteAnswers(pg)}
    /\ previous = <<>>
    /\ config = new(args)
    /\ checks = FALSE
    /\ dir_exists \in BOOLEAN
    /\ files = IF dir_exists THEN [p \in 1..MaxPages |-> Stale] ELSE <<>>
    /\ pc = "start"
    /\ initial_response = None
    /\ response = None
    /\ total_count = 0
    /\ total_pages = 0
    /\ page = 0
    /\ params = <<>>
    /\ log = <<>>
    /\ result = "running"

\* main.rs:230-236: the program is started again with the same arguments
Restart ==
    /\ pc \in {"done", "failed"}
    /\ previous = <<>>
    /\ previous' = <<[log |-> log, result |-> result, files |-> files]>>
    /\ config' = new(args)
    /\ pc' = "start"
    /\ initial_response' = None
    /\ response' = None
    /\ total_count' = 0
    /\ total_pages' = 0
    /\ page' = 0
    /\ params' = <<>>
    /\ log' = <<>>
    /\ result' = "running"
    /\ UNCHANGED <<args, remote, checks, dir_exists, files>>

NextRerun == Next \/ Restart

SpecRerun == InitRerun /\ [][NextRerun]_vars

(***************************************************************************)
(* The runs in which every await returns: the send and decode of           *)
(* main.rs:194, the sleep of 146 and the file operations of 216-218 are    *)
(* the only places where run() waits, so a step that is enabled is taken.  *)
(***************************************************************************)
InitLive ==
    /\ Init
    /\ args.pagination_type = "Cursor"
    /\ dir_exists

SpecLive == InitLive /\ [][Next]_vars /\ WF_vars(Next)

(***************************************************************************)
(* The planning step and the request builder on their own: the inputs are  *)
(* drawn from the whole i32 range.                                         *)
(***************************************************************************)
WideCounts ==
    (0..MaxCount) \cup {249, 250, 251, 500, 16777216, 16777217, 33554434, 100000001, I32Max}
    \cup {-1, -250, -251, I32Min}

WidePageSizes == PageSizes \cup {3, 100, 250, 1073741824, I32Max}

WidePages == (1..MaxPages) \cup {4, 16777217, 715827904, I32Max}

WidePaginationArgs == PaginationArgs \cup {"page", "pgae", "OFFSET", "oFFset", "CuRsOr", ""}

InitFn ==
    /\ \E pt \in WidePaginationArgs, ps \in WidePageSizes, dp \in DataPaths, tp \in TotalCountPaths :
          args = [pagination_type |-> pt, page_size |-> ps,
                  data_path |-> dp, total_count_path |-> tp]
    /\ remote = <<>>
    /\ previous = <<>>
    /\ config = new(args)
    /\ checks \in BOOLEAN
    /\ dir_exists = TRUE
    /\ files = <<>>
    /\ pc = "call"
    /\ initial_response = None
    /\ response = None
    /\ total_count \in WideCounts
    /\ total_pages = 0
    /\ page \in WidePages
    /\ params = <<>>
    /\ log = <<>>
    /\ result = "running"

\* main.rs:138-139 applied to (total_count, page_size)
CallTotalPages ==
    /\ pc = "call"
    /\ total_pages' = TotalPages(total_count, config.page_size)
    /\ pc' = "planned"
    /\ UNCHANGED <<args, remote, previous, config, checks, dir_exists, files, initial_response, response, total_count,
                   page, params, log, result>>

\* main.rs:170-192 applied to (pagination_type, page, page_size)
CallFetchPage ==
    /\ pc = "call"
    /\ IF FetchPanics(config, checks, page)
       THEN /\ pc' = "panicked"
            /\ result' = "panic"
            /\ params' = params
       ELSE /\ params' = BuildParams(config, page)
            /\ pc' = "built"
            /\ result' = result
    /\ UNCHANGED <<args, remote, previous, config, checks, dir_exists, files, initial_response, response, total_count,
                   total_pages, page, log>>

NextFn == CallTotalPages \/ CallFetchPage

SpecFn == InitFn /\ [][NextFn]_vars

(***************************************************************************)
(* get_total_count (main.rs:198-204) and save_page_to_file (206-221) as    *)
(* functions of a response document: the configured paths and the document *)
(* are drawn from wider samples, and each function is applied to them.     *)
(***************************************************************************)
DocTotalFields ==
    TotalFields
    \o << Member(<<"totalCount">>, JNull),
          Member(<<"totalCount">>, JBool(TRUE)),
          Member(<<"totalCount">>, JArr(<<JInt(I64(1))>>)),
          Member(<<"totalCount">>, JObj(Member(<<"total">>, JInt(I64(1))))),
          Member(<<"totalCount">>, JInt(<<32767, 65535, 65535, 65535>>)),
          Member(<<"totalCount">>, JInt(<<32768, 0, 0, 0>>)),
          Member(<<"totalCount">>, JInt(<<0, 0, 32768, 0>>)),
          Member(<<"totalCount">>, JInt(I64(I32Max))),
          Member(<<"totalCount">>, JInt(I64(I32Min))) >>

DocDataFields ==
    DataFields
    \o << Member(<<"result">>, JObj(Member(<<"items">>, JArr(<<JNull>>)))),
          Member(<<"result", "/", "items">>, JStr(<<"flat">>)),
          Member(<<"result">>, JArr(<<JNull>>)) >>

DocDataPaths == DataPaths \cup {<<"result", "/", "items">>}

InitDoc ==
    /\ \E dp \in DocDataPaths, tp \in TotalCountPaths :
          args = [pagination_type |-> "page", page_size |-> 1,
                  data_path |-> dp, total_count_path |-> tp]
    /\ remote = <<>>
    /\ previous = <<>>
    /\ config = new(args)
    /\ checks = FALSE
    /\ dir_exists = TRUE
    /\ files = [p \in 1..MaxPages |-> Stale]
    /\ pc = "call"
    /\ \E d \in 1..Len(DocDataFields), t \in 1..Len(DocTotalFields) :
          initial_response = Some([doc |-> JObj(DocDataFields[d] \o DocTotalFields[t]), req |-> 1])
    /\ response = None
    /\ total_count = 0
    /\ total_pages = 0
    /\ page = 1
    /\ params = <<>>
    /\ log = <<>>
    /\ result = "running"

\* main.rs:137  self.get_total_count(&initial_response)
CallGetTotalCount ==
    /\ pc = "call"
    /\ LET count == get_total_count(config, initial_response[1].doc)
       IN IF count = None
          THEN /\ result' = "Err(total count)"
               /\ total_count' = total_count
          ELSE /\ result' = "Ok"
               /\ total_count' = count[1]
    /\ pc' = "counted"
    /\ UNCHANGED <<args, remote, previous, config, checks, dir_exists, files, initial_response, response,
                   total_pages, page, params, log>>

\* main.rs:206-221  self.save_page_to_file(page, &response) with a sink that works
CallSavePage ==
    /\ pc = "call"
    /\ LET data == Pointer(initial_response[1].doc, SlashPath(config.data_path))
       IN IF data = None
          THEN /\ result' = "Err(data)"
               /\ files' = files
          ELSE /\ result' = "Ok"
               /\ files' = WriteFile(files, page, to_string_pretty(data[1]))
    /\ pc' = "saved"
    /\ UNCHANGED <<args, remote, previous, config, checks, dir_exists, initial_response, response,
                   total_count, total_pages, page, params, log>>

NextDoc == CallGetTotalCount \/ CallSavePage

SpecDoc == InitDoc /\ [][NextDoc]_vars

(***************************************************************************)
(* Properties.                                                             *)
(***************************************************************************)
EventsOf(kind) == {i \in 1..Len(log) : log[i].ev = kind}

\* the requests of the loop, in the order they were sent (the probe has serial 1)
LoopRequests == SelectSeq(log, LAMBDA e : e.ev = "request" /\ e.src >= 2)

\* no file of the output directory was created or changed
FilesUntouched == \A p \in DOMAIN files : files[p] = Stale

SaveErrors == {"Err(data)", "Err(create_err)", "Err(write_err)"}

\* the document has no integer at the configured total-count path
TotalCountUnusable(doc) ==
    LET found == Pointer(doc, SlashPath(config.total_count_path))
    IN found = None \/ found[1].t # "int"

\* the document has nothing at the configured data path
DataMissing(doc) == Pointer(doc, SlashPath(config.data_path)) = None

\* a configuration and a total as the specification expects them
ValidRun == config.page_size > 0 /\ total_count >= 0

\* the probe was sent, and its fetch or the extraction of the total failed
ProbeFailed ==
    /\ Requests(log) # {}
    /\ pc # "plan"
    /\ \/ initial_response = None
       \/ TotalCountUnusable(initial_response[1].doc)

\* C1: if the probe (the first fetch of page 1, or the extraction of the
\* total count from its response) fails, run() ends with an error: the probe
\* is the only request sent, there is no sleep, no page output is written,
\* no file is touched and completion is not reported.
C1_ProbeFailureIsFatal ==
    ProbeFailed =>
        /\ pc = "failed"
        /\ IsErr(result)
        /\ Cardinality(Requests(log)) = 1
        /\ EventsOf("sleep") = {}
        /\ EventsOf("write") = {}
        /\ EventsOf("print_complete") = {}
        /\ FilesUntouched

C1_Witness ==
    /\ ValidRun
    /\ pc = "failed"
    /\ initial_response # None
    /\ TotalCountUnusable(initial_response[1].doc)
    /\ result = "Err(total count)"

\* C2 as stated: once the fetch of page k has failed during iteration, the
\* run ends with Ok and every page k+1..total_pages has been fetched
\* (stated for the runs in which every response holds the data path).
C2_FetchFailureNeverStopsRun ==
    \A i \in EventsOf("eprint_error") :
        (ValidRun /\ pc \in {"done", "failed"} /\ result # "Err(data)") =>
            /\ result = "Ok"
            /\ \A j \in (log[i].page + 1)..total_pages :
                  \E r \in Requests(log) : log[r].page = j /\ log[r].src >= 2

\* C2 amended: a failed fetch of page k is reported right after its request
\* and does not end the run: the loop goes on to iteration k+1, or to the
\* completion report when k = total_pages.  A run that has ended after such
\* a failure returned Ok with every page k+1..total_pages fetched, unless a
\* later save_page_to_file returned an error, which is then the run's result.
C2_FetchFailureContinues ==
    \A i \in EventsOf("eprint_error") :
        /\ log[i - 1].ev = "request"
        /\ log[i - 1].page = log[i].page
        /\ IF i = Len(log)
           THEN pc = "loop" /\ page = log[i].page + 1 /\ result = "running"
           ELSE IF log[i].page < total_pages
                THEN log[i + 1].ev = "print_fetching" /\ log[i + 1].page = log[i].page + 1
                ELSE log[i + 1].ev = "print_complete"
        /\ pc \in {"done", "failed"} =>
              \/ result \in SaveErrors
              \/ /\ result = "Ok"
                 /\ \A j \in (log[i].page + 1)..total_pages :
                       \E r \in Requests(log) : log[r].page = j /\ log[r].src >= 2

\* the fetch of page 1 failed, pages 2 and 3 were fetched and the run completed
C2_Witness ==
    /\ ValidRun
    /\ pc = "done"
    /\ total_pages = 3
    /\ \E i \in EventsOf("eprint_error") : log[i].page = 1
    /\ Len(LoopRequests) = 3

\* C3: when the response for page k decodes but lacks the configured data
\* path, the failure is reported, the page's output is skipped and the run
\* goes on with page k+1 (stated for page 2 of 3, the specification's
\* scenario E).
C3_MissingDataIsSkipped ==
    [][(ValidRun /\ total_pages = 3 /\ page = 2 /\ pc = "save"
        /\ DataMissing(response[1].doc)) =>
          /\ pc' = "loop"
          /\ page' = page + 1
          /\ result' = "running"
          /\ files' = files
          /\ Len(log') = Len(log) + 1
          /\ log'[Len(log')].ev = "eprint_error"]_vars

\* C4: for total_count >= 0 and page_size > 0 the planned total_pages is the
\* exact integer ceiling of total_count / page_size, and it is 0 exactly
\* when total_count is 0.
C4_ExactCeiling ==
    (pc = "planned" /\ total_count >= 0 /\ config.page_size > 0) =>
        /\ total_pages = ExactCeil(total_count, config.page_size)
        /\ (total_pages = 0) <=> (total_count = 0)

\* C5: the loop's fetches are issued for the page indices 1, 2, 3, ... in
\* this order, so each index is fetched at most once (a failed page is not
\* retried), never beyond total_pages, and a completed run has attempted
\* every index of 1..total_pages exactly once.
C5_AscendingOnce ==
    /\ \A i \in 1..Len(LoopRequests) : LoopRequests[i].page = i
    /\ Len(LoopRequests) > 0 => Len(LoopRequests) <= total_pages
    /\ pc = "done" => Len(LoopRequests) = (IF total_pages > 0 THEN total_pages ELSE 0)

\* a completed run of three pages in which the fetch of page 2 failed
C5_Witness ==
    /\ ValidRun
    /\ pc = "done"
    /\ total_pages = 3
    /\ Len(LoopRequests) = 3
    /\ \E i \in EventsOf("eprint_error") : log[i].page = 2

\* the parameters C6 prescribes for (variant, page, page_size)
ExpectedParams(variant, pg, size) ==
    IF variant = "Offset"
    THEN /\ MulFits(pg - 1, size)
         /\ params = << <<"offset", I32ToString((pg - 1) * size)>>,
                        <<"limit", I32ToString(size)>> >>
    ELSE IF variant = "Cursor"
    THEN params = << <<"cursor", I32ToString(pg)>>, <<"limit", I32ToString(size)>> >>
    ELSE params = << <<"page", I32ToString(pg)>>, <<"pageSize", I32ToString(size)>> >>

\* the page index is one the loop of run() reaches for this total and size
LoopReaches == ValidRun /\ page >= 1 /\ page <= TotalPages(total_count, config.page_size)

\* C6: for every page >= 1 and page_size > 0 a request is built and its
\* query parameters are exactly offset = (page-1)*page_size, limit =
\* page_size (Offset); cursor = page, limit = page_size (Cursor); page =
\* page, pageSize = page_size (Page).  Stated for the page indices the
\* loop reaches.
C6_ParamsExact ==
    (pc \in {"built", "panicked"} /\ LoopReaches) =>
        /\ pc = "built"
        /\ ExpectedParams(config.pagination_type, page, config.page_size)

\* C7: for every page >= 1 and page_size > 0 no query parameter of the
\* built request is negative; the Offset product neither overflows nor
\* wraps.  Stated for the page indices the loop reaches.
C7_NoNegativeParams ==
    (pc \in {"built", "panicked"} /\ LoopReaches) =>
        /\ pc = "built"
        /\ \A i \in 1..Len(params) : params[i][2][1] # "-"

\* C8: every fetch of the loop, the one of page 1 included, comes right
\* after the sleep of its iteration, and between two consecutive requests
\* of a run (the probe included) there is exactly one sleep.
C8_SleepBeforeEveryLoopFetch ==
    /\ \A i \in Requests(log) :
          log[i].src >= 2 =>
              /\ i > 1
              /\ log[i - 1].ev = "sleep"
              /\ log[i - 1].page = log[i].page
    /\ \A i, j \in Requests(log) :
          (i < j /\ \A k \in (i + 1)..(j - 1) : log[k].ev # "request") =>
              Cardinality({k \in (i + 1)..(j - 1) : log[k].ev = "sleep"}) = 1

\* the probe, the fetch of page 1 and the fetch of page 2 were sent
C8_Witness ==
    /\ ValidRun
    /\ Len(LoopRequests) >= 2
    /\ LoopRequests[1].page = 1
    /\ Cardinality(EventsOf("sleep")) >= 2

PageOneRequests == {i \in Requests(log) : log[i].page = 1}

\* C9 as stated: in a run with total_pages >= 1 exactly one request for
\* page 1 is sent, and the output of page 1 is taken from the probe response.
C9_ProbeReused ==
    (ValidRun /\ total_pages >= 1) =>
        /\ Cardinality(PageOneRequests) = 1
        /\ \A w \in EventsOf("write") : log[w].page = 1 => log[w].src = 1

\* C9 amended: the probe result is not reused.  In a run with total_pages
\* >= 1 the loop sends a second request for page 1, so by the time the
\* first iteration has fetched, two requests for page 1 have been sent, and
\* an output written for page 1 is extracted from the response to the
\* second one, not from the probe response.
C9_PageOneFetchedAgain ==
    /\ Cardinality(PageOneRequests) <= 2
    /\ (total_pages >= 1 /\ (pc \in {"save", "done"} \/ page > 1)) =>
          Cardinality(PageOneRequests) = 2
    /\ \A w \in EventsOf("write") :
          log[w].page = 1 =>
              /\ log[w].src = 2
              /\ \E r \in PageOneRequests : r < w /\ log[r].src = 2

\* page 1 was written with data from the loop's response although the probe
\* response held different data
C9_Witness ==
    /\ ValidRun
    /\ initial_response # None
    /\ \E w \in EventsOf("write") :
          /\ log[w].page = 1
          /\ ~DataMissing(initial_response[1].doc)
          /\ log[w].arg # to_string_pretty(
                 Pointer(initial_response[1].doc, SlashPath(config.data_path))[1])

\* the probe response holds the integer 0 at the total-count path, and the
\* planning step has run
CountIsZero ==
    /\ initial_response # None
    /\ pc # "plan"
    /\ LET found == Pointer(initial_response[1].doc, SlashPath(config.total_count_path))
       IN /\ found # None
          /\ found[1].t = "int"
          /\ found[1].v = <<0, 0, 0, 0>>

\* C10: when the probe response's total count is 0, total_pages is 0, the
\* loop body never executes (the probe stays the only request, no sleep, no
\* output), and the run goes to completion: it reports it and returns Ok.
C10_ZeroCountCompletes ==
    CountIsZero =>
        /\ total_count = 0
        /\ total_pages = 0
        /\ Cardinality(Requests(log)) = 1
        /\ EventsOf("sleep") = {}
        /\ EventsOf("write") = {}
        /\ FilesUntouched
        /\ pc \in {"loop", "done"}
        /\ pc = "loop" => (page > total_pages /\ result = "running")
        /\ pc = "done" => (result = "Ok" /\ log[Len(log)].ev = "print_complete")

C10_Witness == ValidRun /\ CountIsZero /\ pc = "done" /\ result = "Ok"

\* ---------------------------------------------------------------------------
\* C11: the output written for page index N is the data-path value of the
\* response to the request for N, whatever its JSON type; nothing of another
\* page's response is written under N, and a run writes at most one output
\* per index.

\* the request the response being saved answers
SavedRequest == CHOOSE j \in Requests(log) : log[j].src = response[1].req

WritesOfOneRequestEach ==
    \A i \in EventsOf("write") :
        /\ \E j \in Requests(log) : log[j].src = log[i].src /\ log[j].page = log[i].page
        /\ \A k \in EventsOf("write") : log[k].page = log[i].page => k = i

SaveWritesDataOfResponse ==
    (pc = "save" /\ pc' = "loop") =>
        LET data == Pointer(response[1].doc, SlashPath(config.data_path))
        IN /\ data # None
           /\ log[SavedRequest].page = page
           /\ \A j \in Requests(log) : log[j].src <= response[1].req
           /\ files'[page] = to_string_pretty(data[1])
           /\ log'[Len(log) + 1] = Event("write", page, response[1].req, files'[page])
           /\ \A p \in DOMAIN files' : p # page => p \in DOMAIN files /\ files'[p] = files[p]

C11_OutputIsDataOfSameRequest ==
    [] WritesOfOneRequestEach /\ [][SaveWritesDataOfResponse]_vars

\* page 2 of a valid run was written from an object, over a stale file
C11_Witness ==
    /\ ValidRun
    /\ dir_exists
    /\ \E i \in EventsOf("write") : log[i].page = 2
    /\ 2 \in DOMAIN files
    /\ files[2] = to_string_pretty(JObj(Member(<<"k">>, JBool(TRUE))))

\* ---------------------------------------------------------------------------
\* the integer stored at the configured total-count path, if there is one
StoredCount ==
    LET field == Pointer(initial_response[1].doc, SlashPath(config.total_count_path))
    IN IF field = None THEN None ELSE AsI64(field[1])

\* C13: get_total_count returns the integer stored at the configured
\* total-count path unchanged for every value that decodes as a 64-bit signed
\* integer, and fails exactly when the path is absent or holds a value that
\* is not an integer; it never returns another number than the response's.
C13_CountReturnedUnchanged ==
    (pc = "counted") =>
        IF StoredCount = None
        THEN result = "Err(total count)"
        ELSE result = "Ok" /\ I64(total_count) = StoredCount[1]

\* ---------------------------------------------------------------------------
\* the member of the document's top-level object whose name is the whole path
TopLevelField(path) ==
    LET hits == {i \in 1..Len(initial_response[1].doc.v) : initial_response[1].doc.v[i][1] = path}
    IN IF hits = {} THEN None
       ELSE Some(initial_response[1].doc.v[CHOOSE i \in hits : TRUE][2])

\* the value reached from val by descending through the members named by keys
RECURSIVE Descend(_, _)
Descend(val, keys) ==
    IF keys = <<>> THEN Some(val)
    ELSE IF val.t # "obj" THEN None
    ELSE LET hits == {i \in 1..Len(val.v) : val.v[i][1] = Head(keys)}
         IN IF hits = {} THEN None
            ELSE Descend(val.v[CHOOSE i \in hits : TRUE][2], Tail(keys))

\* the segments of a path between its slashes
RECURSIVE Segments(_)
Segments(path) ==
    IF \A i \in 1..Len(path) : path[i] # "/" THEN <<path>>
    ELSE LET cut == CHOOSE i \in 1..Len(path) :
                        path[i] = "/" /\ \A j \in 1..(i - 1) : path[j] # "/"
         IN <<SubSeq(path, 1, cut - 1)>> \o Segments(SubSeq(path, cut + 1, Len(path)))

\* C14 as stated: a configured path is the name of one top-level field of the
\* response and is never traversed: the total count is extracted, and the
\* page is saved, exactly when the top-level object has a member (an integer
\* one for the total count) whose name is the whole path, so "meta/total"
\* does not resolve in a response that holds the value under meta -> total.
C14_PathIsOneTopLevelField ==
    /\ (pc = "counted") =>
          (result = "Ok" <=> (/\ TopLevelField(config.total_count_path) # None
                              /\ TopLevelField(config.total_count_path)[1].t = "int"))
    /\ (pc = "saved") =>
          (result = "Ok" <=> TopLevelField(config.data_path) # None)

\* C14 amended: a configured path is resolved as the JSON pointer "/" + path:
\* its slash-separated segments are followed from the top-level object, one
\* nested object per segment.  The total count is extracted exactly when an
\* integer is reached, and the page is saved with exactly the value reached;
\* a top-level member whose name contains the slash is not found.
C14_PathIsJsonPointer ==
    /\ (pc = "counted") =>
          LET found == Descend(initial_response[1].doc, Segments(config.total_count_path))
          IN IF found # None /\ found[1].t = "int"
             THEN result = "Ok" /\ total_count = I64AsI32(found[1].v)
             ELSE result = "Err(total count)"
    /\ (pc = "saved") =>
          LET found == Descend(initial_response[1].doc, Segments(config.data_path))
          IN IF found # None
             THEN result = "Ok" /\ files[page] = to_string_pretty(found[1])
             ELSE result = "Err(data)" /\ files[page] = Stale

\* the total count 2 was taken from under meta -> total
C14_Witness ==
    /\ pc = "counted"
    /\ config.total_count_path = <<"meta", "/", "total">>
    /\ TopLevelField(<<"meta", "/", "total">>) = None
    /\ Descend(initial_response[1].doc, <<<<"meta">>, <<"total">>>>) = Some(JInt(I64(2)))
    /\ result = "Ok"
    /\ total_count = 2

\* ---------------------------------------------------------------------------
SinkErrors == {"Err(create_err)", "Err(write_err)"}

\* a step of save_page_to_file that found the data and did not write it out
SinkFails ==
    /\ pc = "save"
    /\ ~ DataMissing(SaveSource(page, initial_response[1], response[1]).doc)
    /\ EventsOf("write")' = EventsOf("write")

SinkFailureReturns ==
    SinkFails =>
        /\ pc' = "failed"
        /\ result' \in SinkErrors
        /\ page' = page
        /\ log' = log
        /\ \A p \in DOMAIN files : p # page => files'[p] = files[p]

SinkFailureEndsRun ==
    (result \in SinkErrors) =>
        /\ pc = "failed"
        /\ ~ ENABLED Next
        /\ \A r \in Requests(log) : log[r].page <= page
        /\ EventsOf("print_complete") = {}
        /\ \A i \in EventsOf("write") : log[i].page < page

\* C15: when the file of page k cannot be created or written, run() returns
\* the error at once: no page index above k is fetched, completion is not
\* reported, and the outputs of the pages before k stay as they are.
C15_SinkFailureIsFatal ==
    [] SinkFailureEndsRun /\ [][SinkFailureReturns]_vars

\* the write of page 2 of 3 failed after page 1 was saved
C15_Witness ==
    /\ ValidRun
    /\ total_pages = 3
    /\ page = 2
    /\ result = "Err(write_err)"
    /\ {1, 3} \subseteq DOMAIN files
    /\ \E i \in EventsOf("write") : log[i].page = 1 /\ files[1] = log[i].arg
    /\ files[3] = Stale

\* ---------------------------------------------------------------------------
Terminal == pc \in {"done", "failed", "panicked"}

\* the loop's requests carry the serials from 2 on
LoopRequestsFor(pg) == {r \in Requests(log) : log[r].page = pg /\ log[r].src >= 2}

\* C16 as stated, its bound on the requests: a run with a page size above 0
\* that has ended sent at most 1 + total_pages requests.
C16_AtMostOnePlusTotalPages ==
    (config.page_size > 0 /\ pc \in {"done", "failed"} /\ result # "Err(total count)") =>
        Cardinality(Requests(log)) <= 1 + total_pages

\* C16 amended: when every send, sleep and file operation returns, a run
\* reaches a terminal state (or passes the last page index followed here);
\* it sends the probe and at most one request per page index of
\* 1..total_pages, that is at most 1 + max(total_pages, 0) requests; and
\* completion is reported only when the page index has passed total_pages,
\* with every index of 1..total_pages requested.
C16_RunTerminates ==
    /\ [](Cardinality(Requests(log)) - 1 <= (IF total_pages > 0 THEN total_pages ELSE 0))
    /\ [](\A pg \in 1..MaxPages : Cardinality(LoopRequestsFor(pg)) <= 1)
    /\ []((EventsOf("print_complete") # {}) =>
            /\ pc = "done"
            /\ page > total_pages
            /\ \A pg \in 1..total_pages : LoopRequestsFor(pg) # {})
    /\ <>(Terminal \/ page > MaxPages)

\* a run of three pages that completed after its four requests
C16_Witness ==
    /\ ValidRun
    /\ pc = "done"
    /\ total_pages = 3
    /\ page = 4
    /\ Cardinality(Requests(log)) = 4

\* ---------------------------------------------------------------------------
\* C17: in every reachable state of a run the configured page size is above
\* 0: a configuration with a page size of 0 or less never reaches the probe
\* or the planning step.
C17_PageSizePositive ==
    (Requests(log) # {} \/ pc \in {"probe", "plan", "loop"}) => config.page_size > 0

\* ---------------------------------------------------------------------------
\* the probe's response holds a negative integer at the total-count path, and
\* the planning step has acted on it
NegativeCountPlanned ==
    /\ config.page_size > 0
    /\ initial_response # None
    /\ pc # "plan"
    /\ StoredCount # None
    /\ StoredCount[1][1] >= 32768

\* C18: when the total count of the probe's response is a negative integer
\* (and the page size is above 0), the run does not fail: total_pages is at
\* most 0, the loop body never runs, nothing is requested after the probe,
\* nothing is written, and the run ends by reporting completion with Ok.
C18_NegativeCountCompletesEmpty ==
    NegativeCountPlanned =>
        /\ total_pages <= 0
        /\ pc \in {"loop", "done"}
        /\ Cardinality(Requests(log)) = 1
        /\ EventsOf("write") = {}
        /\ FilesUntouched
        /\ (pc = "done") => result = "Ok"

\* ---------------------------------------------------------------------------
\* the spellings of the two names that select a variant of their own
SpelledOffset == {"offset", "Offset", "OFFSET", "oFFset"}
SpelledCursor == {"cursor", "Cursor", "CURSOR", "CuRsOr"}

VariantOf(str) ==
    IF str \in SpelledOffset THEN "Offset"
    ELSE IF str \in SpelledCursor THEN "Cursor"
    ELSE "Page"

\* the names of the query parameters a variant sends
ParamNames(variant) ==
    IF variant = "Offset" THEN <<"offset", "limit">>
    ELSE IF variant = "Cursor" THEN <<"cursor", "limit">>
    ELSE <<"page", "pageSize">>

\* C19: the pagination variant is chosen from the type string without regard
\* to case: "offset" gives Offset, "cursor" gives Cursor and every other
\* string, misspelt or empty, gives Page with no error; the variant never
\* changes afterwards, and it is the one each request is built for.
C19_VariantChosenCaseInsensitively ==
    /\ [](config.pagination_type = VariantOf(args.pagination_type))
    /\ []((pc = "built") =>
            /\ Len(params) = 2
            /\ <<params[1][1], params[2][1]>> = ParamNames(VariantOf(args.pagination_type)))
    /\ [][config'.pagination_type = config.pagination_type /\ args' = args]_vars

\* a request was built for Cursor from the spelling "CuRsOr"
C19_Witness ==
    /\ pc = "built"
    /\ args.pagination_type = "CuRsOr"
    /\ config.pagination_type = "Cursor"
    /\ params[1][1] = "cursor"

\* ---------------------------------------------------------------------------
\* the outputs of a run: the page indices written, each with its payload
Outputs(lg) == {<<lg[i].page, lg[i].arg>> : i \in {j \in 1..Len(lg) : lg[j].ev = "write"}}

\* the run could not create the directory, or create or write a file
SinkFailed(res) == res \in SinkErrors \cup {"Err(create_dir)"}

BothRunsEnded == previous # <<>> /\ pc \in {"done", "failed"}

====
